---- MODULE Spec2Model ----
(***************************************************************************)
(* State-machine model of the SEC quarterly-panel extractor                *)
(* (src/sec_data_extractor.py, with src/google_colab.py as its variant):   *)
(* the XBRL helpers pick_val, select_units_prefer_usd, quarter_increment,  *)
(* quarter_instant and total_debt as operators, and build_quarterly with   *)
(* calculate_derived_metrics as a step machine over the requested tickers. *)
(* GET with its retry loop is a step machine of its own.                   *)
(*                                                                         *)
(* Python values: an integer is itself; None (and a JSON null) is the      *)
(* sentinel None.  A cell of the pandas DataFrame is a record              *)
(* [k, n, d]: k = "num" the rational n/d (d > 0), "nan" a float NaN,       *)
(* "none" a None kept in an object column, "inf"/"ninf" the infinities.    *)
(***************************************************************************)
EXTENDS Integers, Sequences, FiniteSets, TLC

VARIABLES
    \* ---- build_quarterly --------------------------------------------
    pc,             \* position in build_quarterly
    tickers,        \* the requested ticker list
    usd_only,       \* the usd_only argument
    company_facts,  \* what the facts endpoint serves for each CIK this run
    idx,            \* 1-based position of the for loop over tickers
    usgaap,         \* facts["us-gaap"] of the entity being processed
    rev_unit,       \* unit of the entity's resolved revenue tag
    fy,             \* fiscal year the inner loop is at
    rows,           \* the list the rows are appended to
    fetch_log,      \* the CIKs GET was called with, in order
    failed,         \* request positions whose per-entity work raised
    df_sorted,      \* the frame after sort and derived metrics, before the filter
    panel,          \* the returned DataFrame, as a sequence of rows
    panel_cols,     \* the columns of the returned DataFrame
    df_arg,         \* the DataFrame object passed to calculate_derived_metrics,
                    \* as it is when the call has returned
    \* ---- pick_val called on its own ------------------------------------
    arr,            \* the observation array
    pick_args,      \* the (fy, fp) of the last call
    pick_result,    \* what the last call returned
    \* ---- quarter_increment called on its own ---------------------------
    inc_usgaap,     \* the fact set of the call
    inc_result,     \* <<what the call returned>>, empty before the call
    \* ---- the other helpers called on their own --------------------------
    fn,             \* the helper that is called
    fn_args,        \* its arguments
    fn_result,      \* <<what the call returned>>, empty before the call
    \* ---- GET called on its own ------------------------------------------
    url,            \* the url argument
    max_retries,    \* the max_retries argument
    attempt,        \* the loop variable of "for attempt in range(max_retries)"
    get_pc,         \* position in GET
    get_log,        \* the outcome of every requests.get made, in order
    slept,          \* the arguments of the time.sleep calls, in order
    get_result      \* how the call ended: "response", "None" or "raised"

vars == <<pc, tickers, usd_only, company_facts, idx, usgaap, rev_unit, fy, rows,
          fetch_log, failed, df_sorted, panel, arr, pick_args, pick_result,
          panel_cols, df_arg, inc_usgaap, inc_result, fn, fn_args, fn_result,
          url, max_retries, attempt, get_pc, get_log, slept, get_result>>

build_vars == <<pc, tickers, usd_only, company_facts, idx, usgaap, rev_unit, fy,
                rows, fetch_log, failed, df_sorted, panel, panel_cols, df_arg>>
pick_vars == <<arr, pick_args, pick_result>>
inc_vars == <<inc_usgaap, inc_result>>
fn_vars == <<fn, fn_args, fn_result>>
get_vars == <<url, max_retries, attempt, get_pc, get_log, slept, get_result>>

----------------------------------------------------------------------------
(* Python values *)

\* Python's None, and a JSON null.
None == 0 - 9999
\* The exception a call ended with instead of a value.
Raised == 0 - 9998
\* A result that has not been produced yet.
Unset == 0 - 9997
\* No observation reported for a period (in the fact sets enumerated below).
Absent == 0 - 9996

\* str(x) of an observation's "fy": the decimal numeral, whether the JSON
\* carried a number or a string of digits; "None" for a missing key.
PyStr(v) == IF v.t = "none" THEN <<"None", 0>> ELSE <<"digits", v.n>>
IntFy(n) == [t |-> "int", n |-> n]
StrFy(n) == [t |-> "str", n |-> n]

FiscalPeriods == <<"Q1", "Q2", "Q3", "Q4", "FY">>
Quarters == <<"Q1", "Q2", "Q3", "Q4">>

\* Order of the quarter labels under Python's string comparison.
FqRank(fq) == CASE fq = "Q1" -> 1 [] fq = "Q2" -> 2 [] fq = "Q3" -> 3
                [] fq = "Q4" -> 4 [] OTHER -> 5

----------------------------------------------------------------------------
(* sorted(): a stable ascending sort of [key, item] pairs by tuple key *)

LexLess(a, b) ==
    \E i \in 1..Len(a) : a[i] < b[i] /\ \A j \in 1..(i - 1) : a[j] = b[j]

RECURSIVE SortPairs(_)
SortPairs(s) ==
    IF Len(s) <= 1 THEN s
    ELSE LET rest == SortPairs(SubSeq(s, 1, Len(s) - 1))
             x == s[Len(s)]
             k == Cardinality({i \in 1..Len(rest) : ~LexLess(x.key, rest[i].key)})
         IN SubSeq(rest, 1, k) \o <<x>> \o SubSeq(rest, k + 1, Len(rest))

----------------------------------------------------------------------------
(* XBRL helpers *)

\* A fact is [is_dict, has_units, units]; units is the ordered mapping
\* unit name -> observation array, as a sequence of [unit, data].
Fact(units) == [is_dict |-> TRUE, has_units |-> TRUE, units |-> units]

UnitIndex(units, name) ==
    LET hits == {i \in 1..Len(units) : units[i].unit = name}
    IN IF hits = {} THEN 0 ELSE CHOOSE i \in hits : \A j \in hits : j <= i

\* The unit selection without the preference for USD.
select_units_first(fact) ==
    IF ~fact.is_dict \/ ~fact.has_units THEN [data |-> <<>>, unit |-> "None"]
    ELSE IF Len(fact.units) > 0
         THEN [data |-> fact.units[1].data, unit |-> fact.units[1].unit]
    ELSE [data |-> <<>>, unit |-> "None"]

select_units_prefer_usd(fact) ==
    IF ~fact.is_dict \/ ~fact.has_units THEN [data |-> <<>>, unit |-> "None"]
    ELSE IF UnitIndex(fact.units, "USD") > 0
         THEN [data |-> fact.units[UnitIndex(fact.units, "USD")].data, unit |-> "USD"]
    ELSE IF Len(fact.units) > 0
         THEN [data |-> fact.units[1].data, unit |-> fact.units[1].unit]
    ELSE [data |-> <<>>, unit |-> "None"]

candidates(a, y, fp) ==
    SelectSeq(a, LAMBDA x : PyStr(x.fy) = PyStr(IntFy(y)) /\ x.fp = fp)

\* sorted() compares (end, val) tuples: two candidates with the same end and
\* different values of which one is None raise TypeError.
pick_val_raises(a, y, fp) ==
    LET c == candidates(a, y, fp)
    IN \E i, j \in 1..Len(c) :
          /\ c[i].end = c[j].end
          /\ c[i].val # c[j].val
          /\ c[i].val = None

\* pick_val sorting by (val, end) instead of (end, val).
SortKeyedByValue(c) ==
    SortPairs([i \in 1..Len(c) |-> [key |-> <<c[i].val, c[i].end>>, item |-> c[i]]])

SortKeyed(c) ==
    SortPairs([i \in 1..Len(c) |-> [key |-> <<c[i].end, c[i].val>>, item |-> c[i]]])

\* pick_val returning the last matching observation as filed, unsorted.
pick_val_unsorted(a, y, fp) ==
    LET c == candidates(a, y, fp)
    IN IF Len(c) = 0 THEN None ELSE c[Len(c)].val

pick_val(a, y, fp) ==
    LET c == candidates(a, y, fp)
    IN IF Len(c) = 0 THEN None
       ELSE IF pick_val_raises(a, y, fp) THEN Raised
       ELSE SortKeyed(c)[Len(c)].item.val

\* The tag resolution taking the last listed tag that is present.
last_tag(ug, tag_list) ==
    LET hits == {i \in 1..Len(tag_list) : tag_list[i] \in DOMAIN ug}
    IN IF hits = {} THEN "None"
       ELSE tag_list[CHOOSE i \in hits : \A j \in hits : j <= i]

\* The tag resolution passing over the tags that have no observation.
first_tag_with_data(ug, tag_list) ==
    LET hits == {i \in 1..Len(tag_list) :
                    /\ tag_list[i] \in DOMAIN ug
                    /\ \E k \in 1..Len(ug[tag_list[i]].units) :
                          ug[tag_list[i]].units[k].data # <<>>}
    IN IF hits = {} THEN "None"
       ELSE tag_list[CHOOSE i \in hits : \A j \in hits : i <= j]

\* next((t for t in tag_list if t in usgaap), None)
first_tag(ug, tag_list) ==
    LET hits == {i \in 1..Len(tag_list) : tag_list[i] \in DOMAIN ug}
    IN IF hits = {} THEN "None"
       ELSE tag_list[CHOOSE i \in hits : \A j \in hits : i <= j]

AllNone == [Q1 |-> None, Q2 |-> None, Q3 |-> None, Q4 |-> None, FY |-> None,
            raised |-> FALSE]
IncRaised == [Q1 |-> None, Q2 |-> None, Q3 |-> None, Q4 |-> None, FY |-> None,
              raised |-> TRUE]

\* quarter_increment returning the year-to-date values of Q2 and Q3 as they
\* are reported, without subtracting the preceding period.
quarter_increment_ytd(ug, tag_list, y) ==
    LET tag == first_tag(ug, tag_list)
    IN IF tag = "None" THEN AllNone
       ELSE
       LET a == select_units_prefer_usd(ug[tag]).data
           q1 == pick_val(a, y, "Q1")
           q2 == pick_val(a, y, "Q2")
           q3 == pick_val(a, y, "Q3")
           fy_val == pick_val(a, y, "FY")
       IN IF Raised \in {q1, q2, q3, fy_val} THEN IncRaised
          ELSE [Q1 |-> q1, Q2 |-> q2, Q3 |-> q3,
                Q4 |-> IF fy_val # None /\ None \notin {q1, q2, q3}
                       THEN fy_val - q1 - q2 - q3 ELSE fy_val,
                FY |-> fy_val, raised |-> FALSE]

\* quarter_increment taking a Q4-labeled observation before deriving Q4.
quarter_increment_q4_label(ug, tag_list, y) ==
    LET tag == first_tag(ug, tag_list)
    IN IF tag = "None" THEN AllNone
       ELSE
       LET a == select_units_prefer_usd(ug[tag]).data
           ytd1 == pick_val(a, y, "Q1")
           ytd2 == pick_val(a, y, "Q2")
           ytd3 == pick_val(a, y, "Q3")
           fy_val == pick_val(a, y, "FY")
           direct == pick_val(a, y, "Q4")
       IN IF Raised \in {ytd1, ytd2, ytd3, fy_val, direct} THEN IncRaised
          ELSE
          LET q1 == ytd1
              q2 == IF ytd2 # None /\ ytd1 # None THEN ytd2 - ytd1 ELSE ytd2
              q3 == IF ytd3 # None /\ ytd2 # None THEN ytd3 - ytd2 ELSE ytd3
          IN [Q1 |-> q1, Q2 |-> q2, Q3 |-> q3,
              Q4 |-> IF direct # None THEN direct
                     ELSE IF fy_val # None /\ None \notin {q1, q2, q3}
                          THEN fy_val - q1 - q2 - q3
                     ELSE fy_val,
              FY |-> fy_val, raised |-> FALSE]

\* quarter_increment subtracting from FY whatever increments are known.
quarter_increment_partial(ug, tag_list, y) ==
    LET tag == first_tag(ug, tag_list)
    IN IF tag = "None" THEN AllNone
       ELSE
       LET a == select_units_prefer_usd(ug[tag]).data
           ytd1 == pick_val(a, y, "Q1")
           ytd2 == pick_val(a, y, "Q2")
           ytd3 == pick_val(a, y, "Q3")
           fy_val == pick_val(a, y, "FY")
           direct == pick_val(a, y, "Q4")
           zero(v) == IF v = None THEN 0 ELSE v
       IN IF Raised \in {ytd1, ytd2, ytd3, fy_val, direct} THEN IncRaised
          ELSE
          LET q1 == ytd1
              q2 == IF ytd2 # None /\ ytd1 # None THEN ytd2 - ytd1 ELSE ytd2
              q3 == IF ytd3 # None /\ ytd2 # None THEN ytd3 - ytd2 ELSE ytd3
          IN [Q1 |-> q1, Q2 |-> q2, Q3 |-> q3,
              Q4 |-> IF fy_val # None
                     THEN fy_val - zero(q1) - zero(q2) - zero(q3)
                     ELSE direct,
              FY |-> fy_val, raised |-> FALSE]

\* quarter_increment taking a year-to-date value that is not reported as 0
\* when it forms the differences of Q2 and Q3.
quarter_increment_zero_fill(ug, tag_list, y) ==
    LET tag == first_tag(ug, tag_list)
    IN IF tag = "None" THEN AllNone
       ELSE
       LET a == select_units_prefer_usd(ug[tag]).data
           ytd1 == pick_val(a, y, "Q1")
           ytd2 == pick_val(a, y, "Q2")
           ytd3 == pick_val(a, y, "Q3")
           fy_val == pick_val(a, y, "FY")
           direct == pick_val(a, y, "Q4")
           zero(v) == IF v = None THEN 0 ELSE v
       IN IF Raised \in {ytd1, ytd2, ytd3, fy_val, direct} THEN IncRaised
          ELSE
          LET q1 == ytd1
              q2 == IF ytd2 = None /\ ytd1 = None THEN None ELSE zero(ytd2) - zero(ytd1)
              q3 == IF ytd3 = None /\ ytd2 = None THEN None ELSE zero(ytd3) - zero(ytd2)
          IN [Q1 |-> q1, Q2 |-> q2, Q3 |-> q3,
              Q4 |-> IF fy_val # None /\ None \notin {q1, q2, q3}
                     THEN fy_val - q1 - q2 - q3
                     ELSE IF direct = None /\ fy_val # None THEN fy_val ELSE direct,
              FY |-> fy_val, raised |-> FALSE]

quarter_increment(ug, tag_list, y) ==
    LET tag == first_tag(ug, tag_list)
    IN IF tag = "None" THEN AllNone
       ELSE
       LET a == select_units_prefer_usd(ug[tag]).data
           ytd1 == pick_val(a, y, "Q1")
           ytd2 == pick_val(a, y, "Q2")
           ytd3 == pick_val(a, y, "Q3")
           fy_val == pick_val(a, y, "FY")
       IN IF Raised \in {ytd1, ytd2, ytd3, fy_val} THEN IncRaised
          ELSE
          LET q1 == ytd1
              q2 == IF ytd2 # None /\ ytd1 # None THEN ytd2 - ytd1 ELSE ytd2
              q3 == IF ytd3 # None /\ ytd2 # None THEN ytd3 - ytd2 ELSE ytd3
              direct == pick_val(a, y, "Q4")
          IN IF fy_val # None /\ None \notin {q1, q2, q3}
             THEN [Q1 |-> q1, Q2 |-> q2, Q3 |-> q3, Q4 |-> fy_val - q1 - q2 - q3,
                   FY |-> fy_val, raised |-> FALSE]
             ELSE IF direct = Raised THEN IncRaised
             ELSE [Q1 |-> q1, Q2 |-> q2, Q3 |-> q3,
                   Q4 |-> IF direct = None /\ fy_val # None THEN fy_val ELSE direct,
                   FY |-> fy_val, raised |-> FALSE]

\* quarter_instant falling back to the FY-labeled value for every quarter.
quarter_instant_fy_always(ug, tag_list, y, fq) ==
    LET tag == first_tag(ug, tag_list)
    IN IF tag = "None" THEN None
       ELSE LET a == select_units_prefer_usd(ug[tag]).data
                val == pick_val(a, y, fq)
            IN IF val = None THEN pick_val(a, y, "FY") ELSE val

quarter_instant(ug, tag_list, y, fq) ==
    LET tag == first_tag(ug, tag_list)
    IN IF tag = "None" THEN None
       ELSE LET a == select_units_prefer_usd(ug[tag]).data
                val == pick_val(a, y, fq)
            IN IF val = None /\ fq = "Q4" THEN pick_val(a, y, "FY") ELSE val

----------------------------------------------------------------------------
(* XBRL tag mappings *)

DurationKeys == <<"revenue", "cogs", "ebit", "net_income", "eps_diluted", "da",
                  "tax_expense", "cfo", "cfi", "cff", "capex", "interest_exp",
                  "dividends", "rnd", "sga">>

DURATION_TAGS ==
    [revenue |-> <<"RevenueFromContractWithCustomerExcludingAssessedTax",
                   "SalesRevenueNet", "Revenues">>,
     cogs |-> <<"CostOfGoodsAndServicesSold", "CostOfRevenue">>,
     ebit |-> <<"OperatingIncomeLoss",
                "IncomeLossFromContinuingOperationsBeforeIncomeTaxes">>,
     net_income |-> <<"NetIncomeLoss", "ProfitLoss">>,
     eps_diluted |-> <<"EarningsPerShareDiluted", "EarningsPerShareBasicAndDiluted">>,
     da |-> <<"DepreciationDepletionAndAmortization", "DepreciationAndAmortization">>,
     tax_expense |-> <<"IncomeTaxExpenseBenefit">>,
     cfo |-> <<"NetCashProvidedByUsedInOperatingActivities">>,
     cfi |-> <<"NetCashProvidedByUsedInInvestingActivities">>,
     cff |-> <<"NetCashProvidedByUsedInFinancingActivities">>,
     capex |-> <<"PaymentsToAcquirePropertyPlantAndEquipment",
                 "CapitalExpendituresIncurredButNotYetPaid">>,
     interest_exp |-> <<"InterestExpense", "InterestAndDebtExpense">>,
     dividends |-> <<"PaymentsOfDividendsCommonStock", "PaymentsOfDividends">>,
     rnd |-> <<"ResearchAndDevelopmentExpense">>,
     sga |-> <<"SellingGeneralAndAdministrativeExpense">>]

\* The instant metrics of a row, in the order the row literal evaluates them.
InstantKeys == <<"assets", "assets_current", "liabilities_current", "equity",
                 "cash", "sti", "ar", "ap", "inventory", "ppe", "goodwill",
                 "intangibles", "retained", "deferred_revenue", "debt",
                 "treasury_stock">>

INSTANT_TAGS ==
    [assets |-> <<"Assets">>,
     assets_current |-> <<"AssetsCurrent">>,
     liabilities_current |-> <<"LiabilitiesCurrent">>,
     equity |-> <<"StockholdersEquityIncludingPortionAttributableToNoncontrollingInterest",
                  "StockholdersEquity">>,
     cash |-> <<"CashAndCashEquivalentsAtCarryingValue", "Cash">>,
     sti |-> <<"MarketableSecuritiesCurrent", "AvailableForSaleSecuritiesCurrent">>,
     ar |-> <<"AccountsReceivableNetCurrent", "AccountsReceivableNet">>,
     ap |-> <<"AccountsPayableCurrent", "AccountsPayable">>,
     inventory |-> <<"InventoryNet", "Inventory">>,
     debt_lt_nc |-> <<"LongTermDebtNoncurrent">>,
     debt_lt_cur |-> <<"LongTermDebtCurrent">>,
     debt_st |-> <<"ShortTermBorrowings">>,
     ppe |-> <<"PropertyPlantAndEquipmentNet">>,
     goodwill |-> <<"Goodwill">>,
     intangibles |-> <<"FiniteLivedIntangibleAssetsNet",
                       "IntangibleAssetsNetExcludingGoodwill">>,
     retained |-> <<"RetainedEarningsAccumulatedDeficit">>,
     deferred_revenue |-> <<"ContractWithCustomerLiabilityCurrent", "DeferredRevenue">>,
     treasury_stock |-> <<"TreasuryStockValue">>]

\* total_debt returning None as soon as one component is None.
total_debt_all_required(ug, y, fq) ==
    LET lt == quarter_instant(ug, INSTANT_TAGS["debt_lt_nc"], y, fq)
        cur == quarter_instant(ug, INSTANT_TAGS["debt_lt_cur"], y, fq)
        st == quarter_instant(ug, INSTANT_TAGS["debt_st"], y, fq)
    IN IF Raised \in {lt, cur, st} THEN Raised
       ELSE IF None \in {lt, cur, st} THEN None
       ELSE lt + cur + st

total_debt(ug, y, fq) ==
    LET lt == quarter_instant(ug, INSTANT_TAGS["debt_lt_nc"], y, fq)
        cur == quarter_instant(ug, INSTANT_TAGS["debt_lt_cur"], y, fq)
        st == quarter_instant(ug, INSTANT_TAGS["debt_st"], y, fq)
        values == SelectSeq(<<lt, cur, st>>, LAMBDA v : v # None)
    IN IF Raised \in {lt, cur, st} THEN Raised
       ELSE IF Len(values) = 0 THEN None
       ELSE IF Len(values) = 1 THEN values[1]
       ELSE IF Len(values) = 2 THEN values[1] + values[2]
       ELSE values[1] + values[2] + values[3]

Range(s) == {s[i] : i \in 1..Len(s)}

IdCols == <<"ticker", "cik", "fy", "fq">>
RawCols == DurationKeys \o InstantKeys

----------------------------------------------------------------------------
(* build_quarterly: the per-entity extraction *)

start_year == 2014
\* Number of fiscal years of the requested range.
NumYears == 2
\* The year loop running one fiscal year past the range.
end_year_open == start_year + NumYears

\* The last fiscal year of the range: for fy in range(start_year, end_year + 1)
end_year == start_year + NumYears - 1

\* load_ticker_map(): upper-cased ticker -> zero-padded CIK.
ticker_map == [AAPL |-> "0000320193", MSFT |-> "0000789019"]

\* The lookup with the symbol as requested, not upper-cased.
upper_off(t) == t

\* str.upper() on the ticker symbols that are requested.
Upper(t) == CASE t = "msft" -> "MSFT" [] t = "aapl" -> "AAPL" [] OTHER -> t

\* Order of the requested symbols under Python's string comparison
\* (upper-case letters sort before lower-case ones).
TickerRank(t) == CASE t = "AAPL" -> 1 [] t = "MSFT" -> 2 [] t = "ZZZZ" -> 3
                   [] t = "aapl" -> 4 [] t = "msft" -> 5 [] OTHER -> 6

\* {key: quarter_increment(usgaap, tags, fy) for key, tags in DURATION_TAGS.items()}
duration_data(ug, y) ==
    [key \in Range(DurationKeys) |-> quarter_increment(ug, DURATION_TAGS[key], y)]

duration_raises(ug, y) ==
    \E key \in Range(DurationKeys) : duration_data(ug, y)[key].raised

\* The row literal of one admitted quarter.
row(ug, tk, cik, y, fq, dd) ==
    [c \in Range(IdCols) \cup Range(RawCols) |->
        CASE c = "ticker" -> tk
          [] c = "cik" -> cik
          [] c = "fy" -> y
          [] c = "fq" -> fq
          [] c \in Range(DurationKeys) -> dd[c][fq]
          [] c = "debt" -> total_debt(ug, y, fq)
          [] OTHER -> quarter_instant(ug, INSTANT_TAGS[c], y, fq)]

row_raises(r) == \E c \in Range(InstantKeys) : r[c] = Raised

\* The admission test asking for a positive revenue.
admitted_positive_only(revenue, only_usd, unit) ==
    /\ revenue # None
    /\ revenue > 0
    /\ ~(only_usd /\ unit # "USD")

\* The admission test without the test of the revenue unit.
admitted_any_unit(revenue, only_usd, unit) == ~(revenue = None \/ revenue = 0)

\* if revenue is None or revenue == 0: continue
\* if usd_only and rev_unit != "USD": continue
admitted(revenue, only_usd, unit) ==
    /\ ~(revenue = None \/ revenue = 0)
    /\ ~(only_usd /\ unit # "USD")

\* The quarter loop of one fiscal year from quarter number q on: the rows
\* appended, and whether building a row raised (which ends the entity's work).
RECURSIVE quarter_loop(_, _, _, _, _, _, _, _)
quarter_loop(ug, tk, cik, y, dd, only_usd, unit, q) ==
    IF q > Len(Quarters) THEN [rows |-> <<>>, raised |-> FALSE]
    ELSE LET fq == Quarters[q]
             rest == quarter_loop(ug, tk, cik, y, dd, only_usd, unit, q + 1)
             r == row(ug, tk, cik, y, fq, dd)
         IN IF ~admitted(dd["revenue"][fq], only_usd, unit) THEN rest
            ELSE IF row_raises(r) THEN [rows |-> <<>>, raised |-> TRUE]
            ELSE [rows |-> <<r>> \o rest.rows, raised |-> rest.raised]

\* One pass of "for fy in range(start_year, end_year + 1)".
extract_year(ug, tk, cik, y, only_usd, unit) ==
    IF duration_raises(ug, y) THEN [rows |-> <<>>, raised |-> TRUE]
    ELSE quarter_loop(ug, tk, cik, y, duration_data(ug, y), only_usd, unit, 1)

\* rev_tag / rev_unit of the entity.
revenue_unit(ug) ==
    LET rev_tag == first_tag(ug, DURATION_TAGS["revenue"])
    IN IF rev_tag = "None" THEN "None" ELSE select_units_prefer_usd(ug[rev_tag]).unit

----------------------------------------------------------------------------
(* DataFrame cells and float arithmetic *)

Num(n) == [k |-> "num", n |-> n, d |-> 1]
NaN == [k |-> "nan", n |-> 0, d |-> 1]
NoneCell == [k |-> "none", n |-> 0, d |-> 1]
Inf == [k |-> "inf", n |-> 0, d |-> 1]
NegInf == [k |-> "ninf", n |-> 0, d |-> 1]

\* pandas isna(): NaN, and None in an object column.
isna(c) == c.k \in {"nan", "none"}
IsZero(c) == c.k = "num" /\ c.n = 0
IsPositive(c) == c.k = "inf" \/ (c.k = "num" /\ c.n > 0)

Frac(n, d) == IF d < 0 THEN [k |-> "num", n |-> 0 - n, d |-> 0 - d]
              ELSE [k |-> "num", n |-> n, d |-> d]

\* Equality of two numeric cells as numbers.
NumEq(a, b) == a.k = "num" /\ b.k = "num" /\ a.n * b.d = b.n * a.d

\* IEEE float arithmetic on cells; a None operand is what pandas masks to NaN.
Negate(c) == CASE c.k = "inf" -> NegInf [] c.k = "ninf" -> Inf
               [] c.k = "num" -> Frac(0 - c.n, c.d) [] OTHER -> c
FAdd(a, b) == IF a.k = "num" /\ b.k = "num"
              THEN Frac(a.n * b.d + b.n * a.d, a.d * b.d)
              ELSE IF a.k \in {"inf", "ninf"} /\ b.k \in {"num", a.k} THEN a
              ELSE IF b.k \in {"inf", "ninf"} /\ a.k = "num" THEN b
              ELSE NaN
FSub(a, b) == FAdd(a, Negate(b))
FDiv(a, b) == IF a.k # "num" \/ b.k # "num" THEN NaN
              ELSE IF b.n = 0
                   THEN (IF a.n = 0 THEN NaN ELSE IF a.n > 0 THEN Inf ELSE NegInf)
              ELSE Frac(a.n * b.d, a.d * b.n)

\* Series.fillna(0)
fillna(c) == IF isna(c) THEN Num(0) ELSE c

\* (x or 0): None and 0 give 0; NaN is truthy and stays.
or0(c) == IF c.k = "none" \/ IsZero(c) THEN Num(0) ELSE c

\* The division without the test of its operands.
safe_div_unguarded(a, b) == FDiv(a, b)

\* (a / b) if (a is not None and b not in (None, 0)) else 0.0
safe_div(a, b) ==
    IF a.k # "none" /\ ~(b.k = "none" \/ IsZero(b)) THEN FDiv(a, b) ELSE Num(0)

\* The growth rate without the replacement of the infinities.
replace_inf_off(c) == c

\* pct_change(fill_method=None) of one element against the element shifted in,
\* then .replace([inf, -inf], pd.NA).fillna(0)
replace_inf(c) == IF c.k \in {"inf", "ninf"} THEN NaN ELSE c
pct_change(cur, prev) == FSub(FDiv(cur, prev), Num(1))
growth(cur, prev) == fillna(replace_inf(pct_change(cur, prev)))

----------------------------------------------------------------------------
(* pd.DataFrame(rows), sort_values, calculate_derived_metrics *)

\* The raw columns that hold None in every row: pandas keeps them as object
\* columns of None; any other raw column is numeric with None turned to NaN.
object_cols(rs) == {c \in Range(RawCols) : \A i \in 1..Len(rs) : rs[i][c] = None}

DataFrame(rs) ==
    LET obj == object_cols(rs)
    IN [i \in 1..Len(rs) |->
          [c \in DOMAIN rs[i] |->
              IF c \in Range(IdCols) THEN rs[i][c]
              ELSE IF rs[i][c] = None
                   THEN (IF c \in obj THEN NoneCell ELSE NaN)
              ELSE Num(rs[i][c])]]

\* The frame left in the order the rows were appended.
sort_values_off(df) == df

\* df.sort_values(["ticker", "fy", "fq"]).reset_index(drop=True)
sort_values(df) ==
    LET keyed == [i \in 1..Len(df) |->
                    [key |-> <<TickerRank(df[i].ticker), df[i].fy, FqRank(df[i].fq)>>,
                     item |-> df[i]]]
        sorted == SortPairs(keyed)
    IN [i \in 1..Len(df) |-> sorted[i].item]

\* df.groupby("ticker")[col].shift(1): the position of the row shifted in, 0 if none.
shift_source(df, i) ==
    LET before == {j \in 1..(i - 1) : df[j].ticker = df[i].ticker}
    IN IF before = {} THEN 0 ELSE CHOOSE j \in before : \A m \in before : m <= j

LagCols == <<"assets", "inventory", "ar", "ap", "revenue", "cogs", "ppe", "net_income">>

lag(df, i, col) ==
    IF shift_source(df, i) = 0 THEN NaN ELSE df[shift_source(df, i)][col]

\* The columns calculate_derived_metrics adds to row i.
derived(df, i) ==
    LET r == df[i]
        assets_lag == lag(df, i, "assets")
        inventory_lag == lag(df, i, "inventory")
        ar_lag == lag(df, i, "ar")
        ap_lag == lag(df, i, "ap")
        revenue_lag == lag(df, i, "revenue")
        assets_avg == FDiv(FAdd(r.assets, assets_lag), Num(2))
        inventory_avg == FDiv(FAdd(r.inventory, inventory_lag), Num(2))
        ar_avg == FDiv(FAdd(r.ar, ar_lag), Num(2))
        ap_avg == FDiv(FAdd(r.ap, ap_lag), Num(2))
        gross_profit == FSub(fillna(r.revenue), fillna(r.cogs))
        ebitda == FAdd(fillna(r.ebit), fillna(r.da))
        asset_turnover == safe_div(r.revenue, assets_avg)
        inventory_turnover == safe_div(r.cogs, inventory_avg)
        receivables_turnover == safe_div(r.revenue, ar_avg)
        payables_turnover == safe_div(r.cogs, ap_avg)
        dio == safe_div(Num(90), inventory_turnover)
        dso == safe_div(Num(90), receivables_turnover)
        dpo == safe_div(Num(90), payables_turnover)
        fcf == FSub(fillna(r.cfo), fillna(r.capex))
        tangible_book == FSub(FSub(fillna(r.equity), fillna(r.goodwill)),
                              fillna(r.intangibles))
    IN [revenue_lag |-> revenue_lag,
        net_income_lag |-> lag(df, i, "net_income"),
        assets_lag |-> assets_lag,
        inventory_lag |-> inventory_lag,
        ar_lag |-> ar_lag,
        ap_lag |-> ap_lag,
        cogs_lag |-> lag(df, i, "cogs"),
        ppe_lag |-> lag(df, i, "ppe"),
        gross_profit |-> gross_profit,
        gross_margin |-> safe_div(gross_profit, r.revenue),
        op_margin |-> safe_div(r.ebit, r.revenue),
        net_margin |-> safe_div(r.net_income, r.revenue),
        ebitda |-> ebitda,
        ebitda_margin |-> safe_div(ebitda, r.revenue),
        eff_tax_rate |-> safe_div(r.tax_expense, r.ebit),
        roe |-> safe_div(r.net_income, r.equity),
        sga_margin |-> safe_div(r.sga, r.revenue),
        rnd_margin |-> safe_div(r.rnd, r.revenue),
        current_ratio |-> safe_div(r.assets_current, r.liabilities_current),
        quick_ratio |-> safe_div(FAdd(FAdd(or0(r.cash), or0(r.sti)), or0(r.ar)),
                                 r.liabilities_current),
        cash_ratio |-> safe_div(r.cash, r.liabilities_current),
        working_capital |-> FSub(fillna(r.assets_current), fillna(r.liabilities_current)),
        debt_to_equity |-> safe_div(r.debt, r.equity),
        equity_multiplier |-> safe_div(r.assets, r.equity),
        asset_turnover |-> asset_turnover,
        inventory_turnover |-> inventory_turnover,
        receivables_turnover |-> receivables_turnover,
        payables_turnover |-> payables_turnover,
        dio |-> dio,
        dso |-> dso,
        dpo |-> dpo,
        ccc |-> FSub(FAdd(dio, dso), dpo),
        fcf |-> fcf,
        cfo_margin |-> safe_div(r.cfo, r.revenue),
        fcf_margin |-> safe_div(fcf, r.revenue),
        ocf_ratio |-> safe_div(r.cfo, r.revenue),
        cf_to_ni |-> safe_div(r.cfo, r.net_income),
        ppe_to_assets |-> safe_div(r.ppe, r.assets),
        goodwill_to_assets |-> safe_div(r.goodwill, r.assets),
        intang_to_assets |-> safe_div(r.intangibles, r.assets),
        cash_to_assets |-> safe_div(r.cash, r.assets),
        curr_assets_to_assets |-> safe_div(r.assets_current, r.assets),
        retained_to_assets |-> safe_div(r.retained, r.assets),
        tangible_book |-> tangible_book,
        tangible_book_to_assets |-> safe_div(tangible_book, r.assets),
        sales_growth |-> growth(r.revenue, revenue_lag)]

calculate_derived_metrics(df) ==
    [i \in 1..Len(df) |-> df[i] @@ derived(df, i)]

\* df["earning_growth"] = df.groupby("ticker")["net_income"].pct_change(...)...
earning_growth(df) ==
    [i \in 1..Len(df) |->
        df[i] @@ [earning_growth |-> growth(df[i].net_income, lag(df, i, "net_income"))]]

\* Output feature list.
FEATURES_62 ==
    <<"revenue", "cogs", "ebit", "net_income", "eps_diluted", "da", "tax_expense",
      "cfo", "cfi", "cff", "capex", "interest_exp", "dividends", "rnd", "sga",
      "ppe", "goodwill", "intangibles", "assets", "assets_current",
      "liabilities_current", "equity", "cash", "sti", "ar", "ap", "inventory",
      "debt", "retained", "deferred_revenue", "treasury_stock",
      "gross_profit", "gross_margin", "op_margin", "net_margin", "ebitda",
      "ebitda_margin", "eff_tax_rate", "current_ratio", "quick_ratio", "cash_ratio",
      "debt_to_equity", "asset_turnover", "inventory_turnover",
      "receivables_turnover", "payables_turnover", "dio", "dso", "dpo", "ccc",
      "fcf", "fcf_margin", "cfo_margin", "ppe_to_assets", "goodwill_to_assets",
      "intang_to_assets", "cash_to_assets", "curr_assets_to_assets",
      "retained_to_assets", "equity_multiplier", "tangible_book",
      "tangible_book_to_assets", "sales_growth", "working_capital", "sga_margin",
      "rnd_margin", "roe", "ocf_ratio", "cf_to_ni">>

out_cols == IdCols \o FEATURES_62 \o <<"earning_growth">>

\* An empty frame without columns.
no_cols == <<>>

\* The out_cols of the early return: pd.DataFrame(columns=out_cols)
empty_cols == IdCols \o FEATURES_62 \o <<"earning_growth">>

\* A callee that works on a copy: the caller's DataFrame is left as it was.
by_value(arg, extended) == arg

\* calculate_derived_metrics assigns its columns into the DataFrame it is
\* given (df[...] = ...) and returns that object, with no copy(): after the
\* call the caller's DataFrame is the extended one.
in_place(arg, extended) == extended

\* Sort, derived metrics and the target variable: the frame the final
\* quality check is applied to.
derived_frame(rs) ==
    earning_growth(calculate_derived_metrics(sort_values(DataFrame(rs))))

\* The final data quality check left out.
revenue_filter_off(df) == df

\* df[(~df["revenue"].isna()) & (df["revenue"] > 0)]
revenue_filter(df) ==
    SelectSeq(df, LAMBDA r : ~isna(r.revenue) /\ IsPositive(r.revenue))

\* select_dtypes(include=["float", "int"]): the string columns and the object
\* columns (an all-None raw column and what is shifted from it) are left out.
numeric_cols(df) ==
    {c \in DOMAIN df[1] :
        /\ c \notin {"ticker", "cik", "fq"}
        /\ (c = "fy" \/ \A i \in 1..Len(df) : df[i][c].k # "none")}

\* df[numeric_cols_no_rev] = df[numeric_cols_no_rev].fillna(0); return df[out_cols]
fill_and_select(df) ==
    IF Len(df) = 0 THEN <<>>
    ELSE LET no_rev == numeric_cols(df) \ {"revenue", "fy"}
         IN [i \in 1..Len(df) |->
               [c \in Range(out_cols) |->
                   IF c \in no_rev THEN fillna(df[i][c]) ELSE df[i][c]]]

\* The final data quality check and what follows it, on the derived frame.
final_frame(df) == fill_and_select(revenue_filter(df))

----------------------------------------------------------------------------
(* The fact sets the facts endpoint may serve *)

Obs(y, fp, end, val) == [fy |-> IntFy(y), fp |-> fp, end |-> end, val |-> val]

\* Period end of (fiscal year, period) as a date code; FY ends with Q4.
PeriodEnd(y, fp) == y * 10 + (IF fp = "FY" THEN 4 ELSE FqRank(fp))

\* What one tag reports for one fiscal year: a value per period label, or Absent.
Profile(q1, q2, q3, q4, whole) ==
    [Q1 |-> q1, Q2 |-> q2, Q3 |-> q3, Q4 |-> q4, FY |-> whole]
NoObs == Profile(Absent, Absent, Absent, Absent, Absent)

year_obs(y, p) ==
    SelectSeq([i \in 1..Len(FiscalPeriods) |->
                  Obs(y, FiscalPeriods[i], PeriodEnd(y, FiscalPeriods[i]),
                      p[FiscalPeriods[i]])],
              LAMBDA o : o.val # Absent)

\* A fact with one unit reporting profile p0 for the first year of the range
\* and p1 for the second, followed by the observations extra.
series(unit, p0, p1, extra) ==
    Fact(<<[unit |-> unit,
            data |-> year_obs(start_year, p0) \o year_obs(start_year + 1, p1)
                     \o extra]>>)

\* A second filing of (y, fp) with the same period end and a null value.
null_refiling(y, fp) == <<Obs(y, fp, PeriodEnd(y, fp), None)>>

RevFull == Profile(1, 3, 4, Absent, 6)
RevDip == Profile(2, 1, 1, Absent, 4)
RevGap == Profile(1, Absent, 3, Absent, 5)
RevNegFirst == Profile(0 - 1, 1, 2, Absent, 4)
Income == Profile(0, 2, 2, Absent, 3)
IncomeGap == Profile(Absent, 2, Absent, Absent, 3)
Costs == Profile(1, 2, 3, Absent, 4)
Balance == Profile(2, 4, 2, Absent, 4)

\* Revenue is also reported for the fiscal year before the requested range
\* and for the one after it.
FactsFull ==
    ("Revenues" :> series("USD", RevFull, RevFull,
                          year_obs(start_year - 1, RevFull)
                          \o year_obs(start_year + NumYears, RevFull)))
    @@ ("NetIncomeLoss" :> series("USD", Income, Income, <<>>))
    @@ ("CostOfRevenue" :> series("USD", Costs, Costs, <<>>))
    @@ ("Assets" :> series("USD", Balance, Balance, <<>>))
    @@ ("InventoryNet" :> series("USD", Balance, Balance, <<>>))
    @@ ("AccountsReceivableNetCurrent" :> series("USD", Balance, Balance, <<>>))
    @@ ("AccountsPayableCurrent" :> series("USD", Balance, Balance, <<>>))
    @@ ("LongTermDebtNoncurrent" :> series("USD", Balance, NoObs, <<>>))

FactsDip ==
    ("SalesRevenueNet" :> series("USD", RevDip, RevFull, <<>>))
    @@ ("NetIncomeLoss" :> series("USD", Income, IncomeGap, <<>>))

\* Revenue is reported in two units, EUR listed first, with different values.
FactsGap ==
    ("Revenues" :>
        Fact(<<[unit |-> "EUR", data |-> year_obs(start_year, RevDip)]>>
             \o series("USD", RevGap, RevFull, <<>>).units))
    @@ ("NetIncomeLoss" :> series("USD", Income, Income, <<>>))
    @@ ("Assets" :> series("USD", Balance, Balance, <<>>))

FactsNegFirst ==
    ("Revenues" :> series("USD", RevNegFirst, NoObs, <<>>))
    @@ ("NetIncomeLoss" :> series("USD", Income, NoObs, <<>>))
    @@ ("Assets" :> series("USD", Balance, NoObs, <<>>))

FactsEur ==
    ("Revenues" :> series("EUR", RevFull, NoObs, <<>>))
    @@ ("NetIncomeLoss" :> series("EUR", Income, NoObs, <<>>))

\* The second year's Q1 revenue was filed twice, once with a null value.
FactsBadYear ==
    ("Revenues" :> series("USD", RevFull, RevFull,
                          null_refiling(start_year + 1, "Q1")))
    @@ ("NetIncomeLoss" :> series("USD", Income, Income, <<>>))

\* The first year's Q3 assets were filed twice, once with a null value.
FactsBadRow ==
    ("Revenues" :> series("USD", RevFull, NoObs, <<>>))
    @@ ("Assets" :> series("USD", Balance, NoObs, null_refiling(start_year, "Q3")))

\* One fiscal year of year-to-date revenue 100, 250, 420, 600 and net income
\* 10, 22, 30, 50.
RevExample == Profile(100, 250, 420, Absent, 600)
IncomeExample == Profile(10, 22, 30, Absent, 50)

FactsExample ==
    ("Revenues" :> series("USD", RevExample, NoObs, <<>>))
    @@ ("NetIncomeLoss" :> series("USD", IncomeExample, NoObs, <<>>))

FactsEmpty == <<>>

FactSets == {FactsFull, FactsDip, FactsGap, FactsNegFirst, FactsEur,
             FactsBadYear, FactsBadRow, FactsExample, FactsEmpty}

\* The ticker symbols a request may name: two mapped (one in lower case)
\* and one the directory does not know.
Symbols == {"AAPL", "msft", "ZZZZ"}

\* Longest requested ticker list.
MaxTickers == 2

Requests == UNION {[1..n -> Symbols] : n \in 0..MaxTickers}

CIKs == {ticker_map[t] : t \in DOMAIN ticker_map}

----------------------------------------------------------------------------
(* build_quarterly as a step machine *)

Mapped(t) == Upper(t) \in DOMAIN ticker_map

PickIdle == arr = <<>> /\ pick_args = <<>> /\ pick_result = Unset
IncIdle == inc_usgaap = <<>> /\ inc_result = <<>>
FnIdle == fn = "None" /\ fn_args = <<>> /\ fn_result = <<>>
GetIdle ==
    /\ url = "None"
    /\ max_retries = 0
    /\ attempt = 0
    /\ get_pc = "idle"
    /\ get_log = <<>>
    /\ slept = <<>>
    /\ get_result = "unset"

Init ==
    /\ pc = "loop"
    /\ tickers \in Requests
    /\ usd_only \in BOOLEAN
    /\ company_facts \in [CIKs -> FactSets]
    \* the facts of a CIK that no request names are never fetched
    /\ \A c \in CIKs :
          (\A i \in 1..Len(tickers) : ~Mapped(tickers[i]) \/ ticker_map[Upper(tickers[i])] # c)
              => company_facts[c] = FactsEmpty
    /\ idx = 1
    /\ usgaap = <<>>
    /\ rev_unit = "None"
    /\ fy = start_year
    /\ rows = <<>>
    /\ fetch_log = <<>>
    /\ failed = {}
    /\ df_sorted = <<>>
    /\ panel = <<>>
    /\ panel_cols = <<>>
    /\ df_arg = <<>>
    /\ PickIdle
    /\ IncIdle
    /\ FnIdle
    /\ GetIdle

InLoop == pc = "loop" /\ idx <= Len(tickers)

\* cik = ticker_map.get(ticker.upper()); if not cik: continue
SkipUnmapped ==
    /\ InLoop
    /\ ~Mapped(tickers[idx])
    /\ idx' = idx + 1
    /\ UNCHANGED <<pc, tickers, usd_only, company_facts, usgaap, rev_unit, fy, rows,
                   fetch_log, failed, df_sorted, panel, panel_cols, df_arg>>
    /\ UNCHANGED <<pick_vars, inc_vars, fn_vars, get_vars>>

\* GET(FACTS_URL...) returns: usgaap, rev_tag and rev_unit are set.
FetchFacts ==
    /\ InLoop
    /\ Mapped(tickers[idx])
    /\ LET cik == ticker_map[Upper(tickers[idx])]
       IN /\ fetch_log' = Append(fetch_log, cik)
          /\ usgaap' = company_facts[cik]
          /\ rev_unit' = revenue_unit(company_facts[cik])
    /\ fy' = start_year
    /\ pc' = "years"
    /\ UNCHANGED <<tickers, usd_only, company_facts, idx, rows, failed, df_sorted,
                   panel, panel_cols, df_arg>>
    /\ UNCHANGED <<pick_vars, inc_vars, fn_vars, get_vars>>

\* GET(FACTS_URL...) raises: except Exception: continue
FetchRaises ==
    /\ InLoop
    /\ Mapped(tickers[idx])
    /\ fetch_log' = Append(fetch_log, ticker_map[Upper(tickers[idx])])
    /\ failed' = failed \cup {idx}
    /\ idx' = idx + 1
    /\ UNCHANGED <<pc, tickers, usd_only, company_facts, usgaap, rev_unit, fy, rows,
                   df_sorted, panel, panel_cols, df_arg>>
    /\ UNCHANGED <<pick_vars, inc_vars, fn_vars, get_vars>>

YearOutcome ==
    extract_year(usgaap, tickers[idx], ticker_map[Upper(tickers[idx])], fy,
                 usd_only, rev_unit)

\* One fiscal year of the entity is extracted; after the last one the loop
\* moves to the next ticker.
ExtractYear ==
    /\ pc = "years"
    /\ ~YearOutcome.raised
    /\ rows' = rows \o YearOutcome.rows
    /\ IF fy < end_year
       THEN fy' = fy + 1 /\ UNCHANGED <<pc, idx>>
       ELSE pc' = "loop" /\ idx' = idx + 1 /\ UNCHANGED fy
    /\ UNCHANGED <<tickers, usd_only, company_facts, usgaap, rev_unit, fetch_log,
                   failed, df_sorted, panel, panel_cols, df_arg>>
    /\ UNCHANGED <<pick_vars, inc_vars, fn_vars, get_vars>>

\* Extracting the fiscal year raises: the rows appended so far stay in the
\* list, the handler logs and continues with the next ticker.
ExtractYearRaises ==
    /\ pc = "years"
    /\ YearOutcome.raised
    /\ rows' = rows \o YearOutcome.rows
    /\ failed' = failed \cup {idx}
    /\ pc' = "loop"
    /\ idx' = idx + 1
    /\ UNCHANGED <<tickers, usd_only, company_facts, usgaap, rev_unit, fy,
                   fetch_log, df_sorted, panel, panel_cols, df_arg>>
    /\ UNCHANGED <<pick_vars, inc_vars, fn_vars, get_vars>>

\* if df.empty: return pd.DataFrame(columns=out_cols)
ReturnEmpty ==
    /\ pc = "loop"
    /\ idx > Len(tickers)
    /\ rows = <<>>
    /\ pc' = "done"
    /\ panel' = <<>>
    /\ panel_cols' = empty_cols
    /\ UNCHANGED <<tickers, usd_only, company_facts, idx, usgaap, rev_unit, fy, rows,
                   fetch_log, failed, df_sorted, df_arg>>
    /\ UNCHANGED <<pick_vars, inc_vars, fn_vars, get_vars>>

\* Sort, derived metrics, target variable, final filter, zero fill, df[out_cols].
ReturnPanel ==
    /\ pc = "loop"
    /\ idx > Len(tickers)
    /\ rows # <<>>
    /\ pc' = "done"
    /\ LET df == sort_values(DataFrame(rows))
           extended == calculate_derived_metrics(df)
       IN /\ df_arg' = in_place(df, extended)
          /\ df_sorted' = earning_growth(extended)
    /\ panel' = final_frame(df_sorted')
    /\ panel_cols' = out_cols
    /\ UNCHANGED <<tickers, usd_only, company_facts, idx, usgaap, rev_unit, fy, rows,
                   fetch_log, failed>>
    /\ UNCHANGED <<pick_vars, inc_vars, fn_vars, get_vars>>

Next ==
    \/ SkipUnmapped
    \/ FetchFacts
    \/ FetchRaises
    \/ ExtractYear
    \/ ExtractYearRaises
    \/ ReturnEmpty
    \/ ReturnPanel

Spec == Init /\ [][Next]_vars

----------------------------------------------------------------------------
(* pick_val called on its own *)

BuildIdle ==
    /\ pc = "idle"
    /\ tickers = <<>>
    /\ usd_only = FALSE
    /\ company_facts = <<>>
    /\ idx = 0
    /\ usgaap = <<>>
    /\ rev_unit = "None"
    /\ fy = start_year
    /\ rows = <<>>
    /\ fetch_log = <<>>
    /\ failed = {}
    /\ df_sorted = <<>>
    /\ panel = <<>>
    /\ panel_cols = <<>>
    /\ df_arg = <<>>

\* Longest observation array.
MaxObs == 3

\* Observations of the requested (start_year, "Q1"), with the fiscal year as
\* a number or as a string, two period ends and a value that may be null;
\* and one observation each of another period and of another year.
ObsDomain ==
    {[fy |-> f, fp |-> "Q1", end |-> e, val |-> v] :
        f \in {IntFy(start_year), StrFy(start_year)}, e \in {1, 2}, v \in {1, 2, None}}
    \cup {[fy |-> IntFy(start_year), fp |-> "FY", end |-> 2, val |-> 3],
          [fy |-> IntFy(start_year + 1), fp |-> "Q1", end |-> 2, val |-> 4]}

PickInit == BuildIdle /\ PickIdle /\ IncIdle /\ FnIdle /\ GetIdle

AddObservation ==
    /\ pick_result = Unset
    /\ Len(arr) < MaxObs
    /\ \E o \in ObsDomain : arr' = Append(arr, o)
    /\ UNCHANGED <<pick_args, pick_result>>
    /\ UNCHANGED <<build_vars, inc_vars, fn_vars, get_vars>>

CallPickVal ==
    /\ pick_result = Unset
    /\ \E fp \in {"Q1", "FY"} :
          /\ pick_args' = <<start_year, fp>>
          /\ pick_result' = pick_val(arr, start_year, fp)
    /\ UNCHANGED arr
    /\ UNCHANGED <<build_vars, inc_vars, fn_vars, get_vars>>

PickNext == AddObservation \/ CallPickVal

SpecPick == PickInit /\ [][PickNext]_vars

----------------------------------------------------------------------------
(* quarter_increment called on its own *)

\* Largest year-to-date value reported.
MaxVal == 2

IncVals == {Absent} \cup 0..MaxVal

\* One fiscal year of a net income tag, every period reported or not.
IncFactSets ==
    {(tag :> Fact(<<[unit |-> "USD",
                     data |-> year_obs(start_year, Profile(q1, q2, q3, q4, w))]>>)) :
        tag \in {"NetIncomeLoss", "ProfitLoss"},
        q1 \in IncVals, q2 \in IncVals, q3 \in IncVals, q4 \in IncVals, w \in IncVals}

IncInit ==
    /\ BuildIdle
    /\ PickIdle
    /\ inc_usgaap \in IncFactSets
    /\ inc_result = <<>>
    /\ FnIdle
    /\ GetIdle

CallQuarterIncrement ==
    /\ inc_result = <<>>
    /\ inc_result' = <<quarter_increment(inc_usgaap, DURATION_TAGS["net_income"],
                                         start_year)>>
    /\ UNCHANGED inc_usgaap
    /\ UNCHANGED <<build_vars, pick_vars, fn_vars, get_vars>>

IncNext == CallQuarterIncrement

SpecInc == IncInit /\ [][IncNext]_vars

----------------------------------------------------------------------------
(* safe_div, quarter_instant, total_debt, select_units_prefer_usd and the    *)
(* tag resolution called on their own: the arguments are drawn in the        *)
(* initial state and the call is the one step.                               *)

\* The values zip() hands to safe_div: None from an object column, NaN, and
\* the numbers.
DivCells == {NoneCell, NaN} \cup {Num(n) : n \in (0 - MaxVal)..MaxVal}

FnBase == BuildIdle /\ PickIdle /\ IncIdle /\ GetIdle /\ fn_result = <<>>

InitSafeDiv == FnBase /\ fn = "safe_div" /\ fn_args \in DivCells \X DivCells

\* A ratio column: the list of safe_div results, and the cell the returned
\* panel holds after the fillna(0) of the float columns.
CallSafeDiv ==
    /\ fn = "safe_div"
    /\ fn_result = <<>>
    /\ fn_result' = <<safe_div(fn_args[1], fn_args[2]),
                      fillna(safe_div(fn_args[1], fn_args[2]))>>
    /\ UNCHANGED <<fn, fn_args>>
    /\ UNCHANGED <<build_vars, pick_vars, inc_vars, get_vars>>

\* What a tag reports for the year: one value for Q1..Q3, one for Q4, one for FY.
TagProfiles ==
    {Profile(q, q, q, q4, w) : q \in IncVals, q4 \in IncVals, w \in IncVals}
\* What a synonym of the tag reports: nothing, or values of its own.
SynProfiles == {NoObs, Profile(MaxVal + 1, MaxVal + 1, MaxVal + 1, Absent, MaxVal + 2)}

TagFact(p) == Fact(<<[unit |-> "USD", data |-> year_obs(start_year, p)]>>)

\* The fact sets with any of the two tags of a list: the first with any
\* profile, the second with a synonym profile.
TwoTagFacts(tag_list) ==
    {(IF has1 THEN (tag_list[1] :> TagFact(p1)) ELSE <<>>)
     @@ (IF has2 THEN (tag_list[2] :> TagFact(p2)) ELSE <<>>) :
        has1 \in BOOLEAN, p1 \in TagProfiles, has2 \in BOOLEAN, p2 \in SynProfiles}

InitQuarterInstant ==
    /\ FnBase
    /\ fn = "quarter_instant"
    /\ fn_args \in TwoTagFacts(INSTANT_TAGS["cash"]) \X Range(Quarters)

CallQuarterInstant ==
    /\ fn = "quarter_instant"
    /\ fn_result = <<>>
    /\ fn_result' = <<quarter_instant(fn_args[1], INSTANT_TAGS["cash"], start_year,
                                      fn_args[2])>>
    /\ UNCHANGED <<fn, fn_args>>
    /\ UNCHANGED <<build_vars, pick_vars, inc_vars, get_vars>>

InitTagIncrement ==
    /\ FnBase
    /\ fn = "quarter_increment"
    /\ fn_args \in {<<ug>> : ug \in TwoTagFacts(DURATION_TAGS["net_income"])}

CallTagIncrement ==
    /\ fn = "quarter_increment"
    /\ fn_result = <<>>
    /\ fn_result' = <<quarter_increment(fn_args[1], DURATION_TAGS["net_income"],
                                        start_year)>>
    /\ UNCHANGED <<fn, fn_args>>
    /\ UNCHANGED <<build_vars, pick_vars, inc_vars, get_vars>>

DebtKeys == <<"debt_lt_nc", "debt_lt_cur", "debt_st">>

\* The fact sets in which each debt component is absent or reports a value
\* for Q1 of the year.
DebtFacts ==
    {[t \in {INSTANT_TAGS[DebtKeys[i]][1] : i \in {i \in 1..3 : c[i] # Absent}} |->
         TagFact(Profile(c[CHOOSE i \in 1..3 : INSTANT_TAGS[DebtKeys[i]][1] = t],
                         Absent, Absent, Absent, Absent))] :
        c \in [1..3 -> IncVals]}

InitTotalDebt ==
    /\ FnBase
    /\ fn = "total_debt"
    /\ fn_args \in DebtFacts \X {"Q1", "Q2"}

CallTotalDebt ==
    /\ fn = "total_debt"
    /\ fn_result = <<>>
    /\ fn_result' = <<total_debt(fn_args[1], start_year, fn_args[2])>>
    /\ UNCHANGED <<fn, fn_args>>
    /\ UNCHANGED <<build_vars, pick_vars, inc_vars, get_vars>>

UnitNames == {"USD", "EUR", "shares"}

\* The observation array of a unit: one observation whose value tells the unit.
UnitData(u) ==
    <<[fy |-> IntFy(start_year), fp |-> "Q1", end |-> 1,
       val |-> CASE u = "USD" -> 1 [] u = "EUR" -> 2 [] OTHER -> 3]>>

\* The unit groupings: every order of every subset of the units.
UnitGroupings ==
    {[i \in 1..n |-> [unit |-> names[i], data |-> UnitData(names[i])]] :
        n \in 0..3,
        names \in {f \in [1..3 -> UnitNames] : \A i, j \in 1..3 : i # j => f[i] # f[j]}}

\* A fact that is not a mapping, one without a unit grouping, and the facts
\* with a unit grouping.
UnitFacts ==
    {[is_dict |-> FALSE, has_units |-> FALSE, units |-> <<>>],
     [is_dict |-> TRUE, has_units |-> FALSE, units |-> <<>>]}
    \cup {Fact(g) : g \in UnitGroupings}

InitSelectUnits ==
    /\ FnBase
    /\ fn = "select_units_prefer_usd"
    /\ fn_args \in {<<f>> : f \in UnitFacts}

CallSelectUnits ==
    /\ fn = "select_units_prefer_usd"
    /\ fn_result = <<>>
    /\ fn_result' = <<select_units_prefer_usd(fn_args[1])>>
    /\ UNCHANGED <<fn, fn_args>>
    /\ UNCHANGED <<build_vars, pick_vars, inc_vars, get_vars>>

\* The fact sets with any of the first two revenue tags: the first reports
\* nothing or a year of revenue in USD or EUR, the second a year of other
\* revenue values in USD or EUR.
RevenueTagFacts ==
    LET tag_list == DURATION_TAGS["revenue"]
    IN {(IF has1 THEN (tag_list[1] :> series(u1, p1, NoObs, <<>>)) ELSE <<>>)
        @@ (IF has2 THEN (tag_list[2] :> series(u2, RevDip, NoObs, <<>>)) ELSE <<>>) :
           has1 \in BOOLEAN, u1 \in {"USD", "EUR"}, p1 \in {NoObs, RevFull},
           has2 \in BOOLEAN, u2 \in {"USD", "EUR"}}

InitRevenueUnit ==
    /\ FnBase
    /\ fn = "revenue_unit"
    /\ fn_args \in {<<ug>> : ug \in RevenueTagFacts}

\* rev_unit as build_quarterly resolves it after the fetch, and the revenue
\* increments it then computes for the first fiscal year.
CallRevenueUnit ==
    /\ fn = "revenue_unit"
    /\ fn_result = <<>>
    /\ fn_result' = <<revenue_unit(fn_args[1]),
                      quarter_increment(fn_args[1], DURATION_TAGS["revenue"], start_year)>>
    /\ UNCHANGED <<fn, fn_args>>
    /\ UNCHANGED <<build_vars, pick_vars, inc_vars, get_vars>>

FnInit ==
    \/ InitRevenueUnit
    \/ InitSafeDiv
    \/ InitQuarterInstant
    \/ InitTagIncrement
    \/ InitTotalDebt
    \/ InitSelectUnits

FnNext ==
    \/ CallRevenueUnit
    \/ CallSafeDiv
    \/ CallQuarterInstant
    \/ CallTagIncrement
    \/ CallTotalDebt
    \/ CallSelectUnits

SpecFn == FnInit /\ [][FnNext]_vars

-----------------------------------------------------------------------------
(* GET called on its own, for any url and any number of attempts allowed *)

TICKERS_URL == "https://www.sec.gov/files/company_tickers.json"
FACTS_URL(cik) == "https://data.sec.gov/api/xbrl/companyfacts/CIK" \o cik \o ".json"

Urls == {TICKERS_URL} \cup {FACTS_URL(cik) : cik \in CIKs}

\* Largest max_retries a call is made with.
MaxRetries == 3

\* What requests.get or raise_for_status may raise: both are
\* requests.RequestException.
RequestErrors == {"ConnectionError", "HTTPError"}

GetInit ==
    /\ BuildIdle
    /\ PickIdle
    /\ IncIdle
    /\ FnIdle
    /\ url \in Urls
    /\ max_retries \in 0..MaxRetries
    /\ attempt = 0
    /\ get_pc = "throttle"
    /\ get_log = <<>>
    /\ slept = <<>>
    /\ get_result = "unset"

\* throttle(), then the for loop is entered.
throttle ==
    /\ get_pc = "throttle"
    /\ get_pc' = "loop"
    /\ attempt' = 0
    /\ UNCHANGED <<url, max_retries, get_log, slept, get_result>>
    /\ UNCHANGED <<build_vars, pick_vars, inc_vars, fn_vars>>

\* requests.get returns and raise_for_status passes: return response
AttemptSucceeds ==
    /\ get_pc = "loop"
    /\ attempt < max_retries
    /\ get_log' = Append(get_log, "ok")
    /\ get_result' = "response"
    /\ get_pc' = "returned"
    /\ UNCHANGED <<url, max_retries, attempt, slept>>
    /\ UNCHANGED <<build_vars, pick_vars, inc_vars, fn_vars>>

\* The attempt raises and is not the last: warning, time.sleep(2 ** attempt),
\* next iteration.
AttemptFailsRetry ==
    /\ get_pc = "loop"
    /\ attempt < max_retries
    /\ attempt # max_retries - 1
    /\ \E e \in RequestErrors : get_log' = Append(get_log, e)
    /\ slept' = Append(slept, 2 ^ attempt)
    /\ attempt' = attempt + 1
    /\ UNCHANGED <<url, max_retries, get_pc, get_result>>
    /\ UNCHANGED <<build_vars, pick_vars, inc_vars, fn_vars>>

\* The attempt raises and attempt == max_retries - 1: error logged, raise.
AttemptFailsLast ==
    /\ get_pc = "loop"
    /\ attempt < max_retries
    /\ attempt = max_retries - 1
    /\ \E e \in RequestErrors : get_log' = Append(get_log, e)
    /\ get_result' = "raised"
    /\ get_pc' = "raised"
    /\ UNCHANGED <<url, max_retries, attempt, slept>>
    /\ UNCHANGED <<build_vars, pick_vars, inc_vars, fn_vars>>

\* range(max_retries) is exhausted: the function body ends without a return
\* statement, so the call returns None.
LoopExhausted ==
    /\ get_pc = "loop"
    /\ attempt >= max_retries
    /\ get_result' = "None"
    /\ get_pc' = "returned"
    /\ UNCHANGED <<url, max_retries, attempt, get_log, slept>>
    /\ UNCHANGED <<build_vars, pick_vars, inc_vars, fn_vars>>

GetNext ==
    \/ throttle
    \/ AttemptSucceeds
    \/ AttemptFailsRetry
    \/ AttemptFailsLast
    \/ LoopExhausted

SpecGet == GetInit /\ [][GetNext]_vars

----------------------------------------------------------------------------
(* Properties *)

Done == pc = "done"

\* The rows of the derived frame that pass the final revenue filter, and the
\* row of the derived frame that row i of the returned panel is.
RetainedIdx == {k \in 1..Len(df_sorted) : IsPositive(df_sorted[k].revenue)}
SourceIndex(i) ==
    CHOOSE k \in RetainedIdx : Cardinality({m \in RetainedIdx : m <= k}) = i

RowKey(r) == <<TickerRank(r.ticker), r.fy, FqRank(r.fq)>>
Sorted(f) == \A i \in 1..(Len(f) - 1) : ~LexLess(RowKey(f[i + 1]), RowKey(f[i]))

\* C1: every row of the panel build_quarterly returns has a non-null revenue
\* strictly greater than 0.
C1_RevenuePositive ==
    Done => \A i \in 1..Len(panel) :
               panel[i].revenue.k = "num" /\ panel[i].revenue.n > 0

\* C1 witness: a panel is returned although a row with a negative revenue
\* increment had been appended.
C1_Witness ==
    Done /\ Len(panel) > 0 /\ \E i \in 1..Len(rows) : rows[i].revenue < 0

\* The observations given to the quarter_increment call, and what they report.
IncData == inc_usgaap[first_tag(inc_usgaap, DURATION_TAGS["net_income"])].units[1].data
Reported(fp) == \E i \in 1..Len(IncData) : IncData[i].fp = fp
ReportedVal(fp) ==
    IncData[CHOOSE i \in 1..Len(IncData) : IncData[i].fp = fp].val

\* C2: when Q1, Q2 (YTD), Q3 (YTD) and FY are reported, quarter_increment
\* returns the reported FY, Q4 = FY - Q1 - Q2 - Q3, and four increments that
\* sum to FY, whether or not a Q4-labeled observation exists.
C2_Q4Derived ==
    (inc_result # <<>> /\ \A fp \in {"Q1", "Q2", "Q3", "FY"} : Reported(fp)) =>
        LET r == inc_result[1]
        IN /\ r.FY = ReportedVal("FY")
           /\ r.Q1 = ReportedVal("Q1")
           /\ r.Q2 = ReportedVal("Q2") - ReportedVal("Q1")
           /\ r.Q3 = ReportedVal("Q3") - ReportedVal("Q2")
           /\ r.Q4 = ReportedVal("FY") - r.Q1 - r.Q2 - r.Q3
           /\ r.Q1 + r.Q2 + r.Q3 + r.Q4 = ReportedVal("FY")

\* C2 witness: the call returned for a year with Q1, Q2, Q3, FY and a
\* Q4-labeled observation whose value differs from the derived Q4.
C2_Witness ==
    /\ inc_result # <<>>
    /\ \A fp \in {"Q1", "Q2", "Q3", "Q4", "FY"} : Reported(fp)
    /\ ReportedVal("Q4") # ReportedVal("FY") - ReportedVal("Q3")
    /\ ReportedVal("Q1") > 0

\* The observations of arr for the requested fiscal year and period.
Matching ==
    {i \in 1..Len(arr) : arr[i].fy.n = pick_args[1] /\ arr[i].fp = pick_args[2]}
Latest == {i \in Matching : \A j \in Matching : arr[j].end <= arr[i].end}

\* C3: a pick_val call that returns gives the value of a matching observation
\* with the latest period end, and the largest value among those that share
\* that period end.
C3_LatestThenLargest ==
    (pick_result \notin {Unset, Raised} /\ Matching # {}) =>
        /\ \E i \in Latest : arr[i].val = pick_result
        /\ \A i \in Latest : arr[i].val <= pick_result

\* C3 witness: an earlier observation has a larger value than one with the
\* latest period end, and two observations share the latest period end.
C3_Witness ==
    /\ pick_result \notin {Unset, Raised}
    /\ \E i \in Matching, j \in Latest, k \in Latest :
          /\ arr[i].end < arr[j].end
          /\ arr[i].val > arr[j].val
          /\ arr[k].val > arr[j].val
          /\ arr[j].val # None

\* Request i is the only request for its ticker symbol.
OnlyRequest(i) == \A j \in 1..Len(tickers) : j # i => tickers[j] # tickers[i]

\* C4: an entity whose fetch or processing raised has no row in the returned
\* panel.
C4_FailedEntityHasNoRow ==
    Done => \A i \in failed :
               OnlyRequest(i) =>
                   \A k \in 1..Len(panel) : panel[k].ticker # tickers[i]

\* C5: every appended row has revenue > 0 and the final revenue filter removes
\* no row.
C5_AdmittedEqualsReturned ==
    Done => /\ \A i \in 1..Len(rows) : rows[i].revenue > 0
            /\ Len(panel) = Len(rows)

\* C6: no metric of the returned panel other than revenue is null.
C6_NoNullMetric ==
    Done => \A i \in 1..Len(panel) :
               \A c \in (Range(FEATURES_62) \cup {"earning_growth"}) \ {"revenue"} :
                   panel[i][c].k = "num"

\* C7: the returned panel is sorted ascending by (ticker, fy, fq), and the lag
\* values are those of the adjacent row of the sorted frame.
C7_SortedBeforeLags ==
    Done => /\ Sorted(panel)
            /\ Sorted(df_sorted)
            /\ \A i \in 1..Len(df_sorted) :
                  LET same == i > 1 /\ df_sorted[i - 1].ticker = df_sorted[i].ticker
                  IN /\ df_sorted[i].revenue_lag =
                          (IF same THEN df_sorted[i - 1].revenue ELSE NaN)
                     /\ df_sorted[i].net_income_lag =
                          (IF same THEN df_sorted[i - 1].net_income ELSE NaN)

\* C7 witness: two tickers requested in descending order both have rows in
\* the returned panel.
C7_Witness ==
    /\ Done
    /\ Len(tickers) = 2
    /\ TickerRank(tickers[1]) > TickerRank(tickers[2])
    /\ \A t \in 1..2 : \E k \in 1..Len(panel) : panel[k].ticker = tickers[t]

FirstOfEntity(i) == \A k \in 1..(i - 1) : panel[k].ticker # panel[i].ticker

\* C8: the first returned row of each entity has growth rates and turnovers 0.
C8_FirstRowZero ==
    Done => \A i \in 1..Len(panel) :
               FirstOfEntity(i) =>
                   \A c \in {"earning_growth", "sales_growth", "asset_turnover",
                             "inventory_turnover", "receivables_turnover",
                             "payables_turnover"} : IsZero(panel[i][c])

\* The quarter directly before (y, fq) in calendar sequence.
PrevQuarter(y, fq) ==
    IF fq = "Q1" THEN <<y - 1, "Q4">> ELSE <<y, Quarters[FqRank(fq) - 1]>>

\* C9: the row a returned row takes its lag values from is the same entity's
\* row of the immediately preceding fiscal quarter.
C9_LagIsPreviousQuarter ==
    Done => \A i \in RetainedIdx :
               LET j == shift_source(df_sorted, i)
               IN j > 0 =>
                    /\ df_sorted[j].ticker = df_sorted[i].ticker
                    /\ <<df_sorted[j].fy, df_sorted[j].fq>> =
                           PrevQuarter(df_sorted[i].fy, df_sorted[i].fq)

\* Row i of the derived frame follows a row of the same entity whose
\* net_income is 0 and has a non-zero net_income itself.
AfterZeroIncome(i) ==
    LET j == shift_source(df_sorted, i)
    IN /\ j > 0
       /\ IsZero(df_sorted[j].net_income)
       /\ df_sorted[i].net_income.k = "num"
       /\ df_sorted[i].net_income.n # 0

\* C10: a returned row whose predecessor has net_income 0 and whose own
\* net_income is non-zero has earning_growth 0, and no earning_growth or
\* sales_growth of the returned panel is infinite or null.
C10_GrowthFinite ==
    Done => \A i \in 1..Len(panel) :
               /\ panel[i].earning_growth.k = "num"
               /\ panel[i].sales_growth.k = "num"
               /\ AfterZeroIncome(SourceIndex(i)) => IsZero(panel[i].earning_growth)

\* C10 witness: a returned row follows a row with net_income 0 and has a
\* non-zero net_income.
C10_Witness ==
    Done /\ \E i \in 1..Len(panel) : AfterZeroIncome(SourceIndex(i))

\* C11: safe_div returns 0.0 when b is 0, b is None or a is None, the quotient
\* a / b otherwise (NaN when an operand is NaN), and never an infinity or an
\* exception; the cell of a ratio column in the returned panel is a number.
C11_SafeDivTotal ==
    (fn = "safe_div" /\ fn_result # <<>>) =>
        LET a == fn_args[1]
            b == fn_args[2]
            r == fn_result[1]
        IN /\ (b.k = "none" \/ IsZero(b) \/ a.k = "none") => r = Num(0)
           /\ (a.k = "num" /\ b.k = "num" /\ b.n # 0) =>
                 (r.k = "num" /\ r.n * b.n * a.d = a.n * b.d * r.d)
           /\ r.k \in {"num", "nan"}
           /\ r.k = "nan" => (a.k = "nan" \/ b.k = "nan")
           /\ fn_result[2].k = "num"
           /\ r.k = "num" => fn_result[2] = r

\* C11 witness: safe_div was called with a non-zero numerator and a zero
\* denominator.
C11_Witness ==
    /\ fn = "safe_div"
    /\ fn_result # <<>>
    /\ fn_args[1].k = "num"
    /\ fn_args[1].n # 0
    /\ IsZero(fn_args[2])

\* The value an observation array reports for period fp of the first year,
\* None if it reports none.
ReportedIn(data, fp) ==
    LET hits == {i \in 1..Len(data) : data[i].fp = fp /\ data[i].fy = IntFy(start_year)}
    IN IF hits = {} THEN None ELSE data[CHOOSE i \in hits : TRUE].val

\* The tags of the list that are keys of the fact set, in list order.
PresentTags(ug, tag_list) == SelectSeq(tag_list, LAMBDA t : t \in DOMAIN ug)

\* C12: quarter_instant for Q4 returns the Q4-labeled value of the resolved
\* tag if there is one and the FY-labeled value otherwise; for Q1, Q2, Q3 it
\* returns the exactly matching value or None, never the FY-labeled value.
C12_InstantQ4Fallback ==
    (fn = "quarter_instant" /\ fn_result # <<>>
       /\ PresentTags(fn_args[1], INSTANT_TAGS["cash"]) # <<>>) =>
        LET data == fn_args[1][PresentTags(fn_args[1], INSTANT_TAGS["cash"])[1]].units[1].data
            fq == fn_args[2]
        IN IF fq = "Q4"
           THEN fn_result[1] = (IF ReportedIn(data, "Q4") # None
                                THEN ReportedIn(data, "Q4") ELSE ReportedIn(data, "FY"))
           ELSE fn_result[1] = ReportedIn(data, fq)

\* C12 witness: a Q4 call on a tag that reports an FY value and no Q4 value
\* returned the FY value.
C12_Witness ==
    /\ fn = "quarter_instant"
    /\ fn_result # <<>>
    /\ PresentTags(fn_args[1], INSTANT_TAGS["cash"]) # <<>>
    /\ LET data == fn_args[1][PresentTags(fn_args[1], INSTANT_TAGS["cash"])[1]].units[1].data
       IN /\ ReportedIn(data, "FY") # None
          /\ ReportedIn(data, "Q4") = None
          /\ ReportedIn(data, "Q1") = None
          /\ fn_args[2] = "Q4"
          /\ fn_result[1] = ReportedIn(data, "FY")

\* The fact set with only the tag t of ug.
OnlyTag(ug, t) == (t :> ug[t])

\* C14: quarter_increment and quarter_instant use the earliest listed tag that
\* is a key of the fact set, whatever a later synonym reports, and resolve to
\* all-None / None without raising when no listed tag is present.
C14_EarliestTagWins ==
    /\ (fn = "quarter_instant" /\ fn_result # <<>>) =>
          LET present == PresentTags(fn_args[1], INSTANT_TAGS["cash"])
          IN fn_result[1] =
                (IF present = <<>> THEN None
                 ELSE quarter_instant(OnlyTag(fn_args[1], present[1]),
                                      INSTANT_TAGS["cash"], start_year, fn_args[2]))
    /\ (fn = "quarter_increment" /\ fn_result # <<>>) =>
          LET present == PresentTags(fn_args[1], DURATION_TAGS["net_income"])
          IN fn_result[1] =
                (IF present = <<>>
                 THEN [Q1 |-> None, Q2 |-> None, Q3 |-> None, Q4 |-> None,
                       FY |-> None, raised |-> FALSE]
                 ELSE quarter_increment(OnlyTag(fn_args[1], present[1]),
                                        DURATION_TAGS["net_income"], start_year))

\* C14 witness: both synonyms of net income are present and report different
\* values, and quarter_increment returned a value.
C14_Witness ==
    /\ fn = "quarter_increment"
    /\ fn_result # <<>>
    /\ LET tag_list == DURATION_TAGS["net_income"]
       IN /\ Len(PresentTags(fn_args[1], tag_list)) = 2
          /\ ReportedIn(fn_args[1][tag_list[1]].units[1].data, "Q1") \notin {None, 0}
          /\ ReportedIn(fn_args[1][tag_list[2]].units[1].data, "Q1") # None
          /\ fn_result[1].Q1 = ReportedIn(fn_args[1][tag_list[1]].units[1].data, "Q1")

\* The value debt component i resolves to for the call's quarter, None if absent.
DebtComponent(i) ==
    LET t == INSTANT_TAGS[DebtKeys[i]][1]
    IN IF t \in DOMAIN fn_args[1]
       THEN ReportedIn(fn_args[1][t].units[1].data, fn_args[2])
       ELSE None
DebtOrZero(i) == IF DebtComponent(i) = None THEN 0 ELSE DebtComponent(i)

\* C13: total_debt is the sum of the components that resolve to a value,
\* absent components counting 0, and None exactly when all three are absent.
C13_TotalDebtSum ==
    (fn = "total_debt" /\ fn_result # <<>>) =>
        /\ (fn_result[1] = None) <=> (\A i \in 1..3 : DebtComponent(i) = None)
        /\ fn_result[1] # None =>
              fn_result[1] = DebtOrZero(1) + DebtOrZero(2) + DebtOrZero(3)

\* C13 witness: one component is absent, two are present, one of them 0.
C13_Witness ==
    /\ fn = "total_debt"
    /\ fn_result # <<>>
    /\ DebtComponent(2) = None
    /\ DebtComponent(1) > 0
    /\ DebtComponent(3) = 0
    /\ fn_result[1] = DebtComponent(1)

\* C15: select_units_prefer_usd returns the USD array with the label "USD"
\* when the grouping has USD at any position, otherwise the first unit of the
\* grouping with its array, and an empty array with a null unit when the fact
\* is not a mapping, has no grouping or has an empty one.
C15_PreferUsd ==
    (fn = "select_units_prefer_usd" /\ fn_result # <<>>) =>
        LET fact == fn_args[1]
            r == fn_result[1]
            usd == {i \in 1..Len(fact.units) : fact.units[i].unit = "USD"}
        IN IF ~fact.is_dict \/ ~fact.has_units \/ fact.units = <<>>
           THEN r.data = <<>> /\ r.unit = "None"
           ELSE IF usd # {}
                THEN r.unit = "USD" /\ \E i \in usd : r.data = fact.units[i].data
           ELSE r.unit = fact.units[1].unit /\ r.data = fact.units[1].data

\* C15 witness: USD is the last of three units and was selected.
C15_Witness ==
    /\ fn = "select_units_prefer_usd"
    /\ fn_result # <<>>
    /\ Len(fn_args[1].units) = 3
    /\ fn_args[1].units[3].unit = "USD"
    /\ fn_result[1].unit = "USD"

\* The facts served for request i, its revenue fact, and the unit that fact
\* resolves to: USD if it has USD observations, else its first unit.
FactsOf(i) == company_facts[ticker_map[Upper(tickers[i])]]
RevenueTags(i) == PresentTags(FactsOf(i), DURATION_TAGS["revenue"])
RevenueUnits(i) ==
    IF RevenueTags(i) = <<>> THEN <<>>
    ELSE [k \in 1..Len(FactsOf(i)[RevenueTags(i)[1]].units) |->
             FactsOf(i)[RevenueTags(i)[1]].units[k].unit]
RevenueInUsd(i) == "USD" \in Range(RevenueUnits(i))

\* The revenue fact of request i with its USD observations only.
UsdRevenue(i) ==
    (RevenueTags(i)[1] :>
        Fact(SelectSeq(FactsOf(i)[RevenueTags(i)[1]].units, LAMBDA u : u.unit = "USD")))

\* The fiscal quarters of request i whose revenue increment is neither None nor 0.
UsableQuarters(i) ==
    {<<y, q>> \in (start_year..end_year) \X (1..4) :
        quarter_increment(FactsOf(i), DURATION_TAGS["revenue"], y)[Quarters[q]]
            \notin {None, 0}}

RowsOf(f, t) == SelectSeq(f, LAMBDA r : r.ticker = t)

\* C16: with usd_only a request whose revenue tag resolves to a unit other
\* than USD has no row, and every row's revenue is the increment of the USD
\* observations of the revenue tag; without usd_only a row is appended for
\* every quarter with a usable revenue, whatever the unit.
C16_UsdOnlyFilter ==
    Done => \A i \in 1..Len(tickers) :
               (Mapped(tickers[i]) /\ OnlyRequest(i) /\ i \notin failed) =>
                   LET mine == RowsOf(rows, tickers[i])
                   IN /\ (usd_only /\ ~RevenueInUsd(i)) =>
                            (mine = <<>> /\ RowsOf(panel, tickers[i]) = <<>>)
                      /\ usd_only =>
                            \A k \in 1..Len(mine) :
                               mine[k].revenue =
                                  quarter_increment(UsdRevenue(i), DURATION_TAGS["revenue"],
                                                    mine[k].fy)[mine[k].fq]
                      /\ (~usd_only \/ RevenueInUsd(i)) =>
                            {<<mine[k].fy, FqRank(mine[k].fq)>> : k \in 1..Len(mine)}
                               = UsableQuarters(i)

\* C16 witness: with usd_only, one request reports revenue in EUR only and
\* has usable revenue, another reports revenue in EUR and in USD and has rows.
C16_Witness ==
    /\ Done
    /\ usd_only
    /\ failed = {}
    /\ Len(tickers) = 2
    /\ Mapped(tickers[1]) /\ Mapped(tickers[2])
    /\ \E i, j \in 1..2 :
          /\ RevenueUnits(i) = <<"EUR">>
          /\ UsableQuarters(i) # {}
          /\ RevenueUnits(j) = <<"EUR", "USD">>
          /\ RowsOf(panel, tickers[j]) # <<>>

\* C17: when no row was admitted the returned panel is empty and has the
\* output columns of a non-empty result, in the same order.
C17_EmptyPanelSchema ==
    Done => /\ panel_cols = IdCols \o FEATURES_62 \o <<"earning_growth">>
            /\ rows = <<>> => panel = <<>>
            /\ \A i \in 1..Len(panel) : DOMAIN panel[i] = Range(panel_cols)

\* C17 witness: a mapped ticker was fetched without failure, no quarter had a
\* usable revenue, and the empty panel was returned.
C17_Witness ==
    /\ Done
    /\ rows = <<>>
    /\ fetch_log # <<>>
    /\ failed = {}
    /\ panel = <<>>

\* The CIK the directory has for a symbol, looked up without regard to case.
DirectoryCik(t) ==
    CASE t \in {"AAPL", "aapl"} -> "0000320193"
      [] t \in {"MSFT", "msft"} -> "0000789019"
      [] OTHER -> "None"

\* The requests whose per-entity work has started.
Started == IF pc = "years" THEN idx ELSE idx - 1

\* C18: the fetches made are one per started request whose symbol the
\* directory maps, in request order, none for an unmapped symbol; an unmapped
\* symbol has no row and the requests after it are processed.
C18_OneFetchPerMappedTicker ==
    /\ fetch_log =
          [k \in 1..Cardinality({i \in 1..Started : DirectoryCik(tickers[i]) # "None"}) |->
              DirectoryCik(tickers[CHOOSE i \in 1..Started :
                  /\ DirectoryCik(tickers[i]) # "None"
                  /\ Cardinality({j \in 1..i : DirectoryCik(tickers[j]) # "None"}) = k])]
    /\ \A i \in 1..Len(tickers) :
          DirectoryCik(tickers[i]) = "None" => RowsOf(rows, tickers[i]) = <<>>
    /\ Done => Started = Len(tickers)

\* C18 witness: an unmapped symbol was requested before a mapped one given in
\* lower case, which was fetched and has rows in the returned panel.
C18_Witness ==
    /\ Done
    /\ tickers = <<"ZZZZ", "msft">>
    /\ fetch_log = <<"0000789019">>
    /\ RowsOf(panel, "msft") # <<>>

\* C19: an entity reporting year-to-date revenue 100, 250, 420, 600 and net
\* income 10, 22, 30, 50 for a fiscal year has four rows for that year, with
\* revenue 100, 150, 170, 180, net_income 10, 12, 8, 20, net_margin equal to
\* net_income / revenue, and earning_growth (12 - 10) / 10 in Q2.
C19_WorkedExample ==
    Done => \A i \in 1..Len(tickers) :
               (Mapped(tickers[i]) /\ OnlyRequest(i) /\ i \notin failed
                  /\ "Revenues" \in DOMAIN FactsOf(i)
                  /\ "NetIncomeLoss" \in DOMAIN FactsOf(i)
                  /\ FactsOf(i)["Revenues"].units[1].data = year_obs(start_year, RevExample)
                  /\ FactsOf(i)["NetIncomeLoss"].units[1].data
                        = year_obs(start_year, IncomeExample)) =>
                   LET mine == RowsOf(panel, tickers[i])
                       revenue == <<100, 150, 170, 180>>
                       net_income == <<10, 12, 8, 20>>
                   IN /\ Len(mine) = 4
                      /\ \A q \in 1..4 :
                            /\ mine[q].fy = start_year
                            /\ mine[q].fq = Quarters[q]
                            /\ mine[q].revenue = Num(revenue[q])
                            /\ mine[q].net_income = Num(net_income[q])
                            /\ NumEq(mine[q].net_margin, Frac(net_income[q], revenue[q]))
                      /\ NumEq(mine[2].earning_growth, Frac(12 - 10, 10))

\* C19 witness: the panel was returned for a request served with these facts.
C19_Witness ==
    /\ Done
    /\ \E i \in 1..Len(tickers) :
          /\ Mapped(tickers[i])
          /\ i \notin failed
          /\ FactsOf(i) = FactsExample
          /\ Len(RowsOf(panel, tickers[i])) = 4

\* C20: the rows of each entity in the returned panel are the rows a run with
\* that entity's appended rows alone returns, whatever the other requested
\* tickers contributed.
C20_EntityIsolation ==
    Done => \A i \in 1..Len(tickers) :
               RowsOf(panel, tickers[i])
                  = final_frame(derived_frame(RowsOf(rows, tickers[i])))

\* The sorted raw panel build_quarterly passes to calculate_derived_metrics,
\* and the columns it has before the call.
RawPanel == sort_values(DataFrame(rows))
RawPanelCols == Range(IdCols) \cup Range(RawCols)

HasNull(ug) ==
    \E tag \in DOMAIN ug :
       \E k \in 1..Len(ug[tag].units) :
          \E j \in 1..Len(ug[tag].units[k].data) : ug[tag].units[k].data[j].val = None

\* C22: a row is appended for a quarter exactly when that quarter's revenue
\* increment is neither unknown nor 0 and, with usd_only, the revenue unit is
\* USD; the tags and observations of the other metrics play no part, and
\* facts without a null value never make the extraction raise.
C22_AdmissionByRevenueOnly ==
    /\ (pc = "years" /\ ~HasNull(usgaap)) => ~YearOutcome.raised
    /\ Done => \A i \in 1..Len(tickers) :
                  (Mapped(tickers[i]) /\ OnlyRequest(i) /\ i \notin failed) =>
                      LET mine == RowsOf(rows, tickers[i])
                      IN \A y \in start_year..end_year : \A q \in 1..4 :
                            (\E k \in 1..Len(mine) :
                                mine[k].fy = y /\ mine[k].fq = Quarters[q])
                            <=> /\ <<y, q>> \in UsableQuarters(i)
                                /\ usd_only => RevenueInUsd(i)

\* C22 witness: rows were appended for an entity that lacks the tags of most
\* metrics and has only part of a year's net income, among them a row with a
\* negative revenue increment and a row whose net income is unknown.
C22_Witness ==
    /\ Done
    /\ failed = {}
    /\ \E k1, k2 \in 1..Len(rows) :
          /\ rows[k1].revenue < 0
          /\ rows[k2].net_income = None
          /\ rows[k2].cogs = None
          /\ rows[k2].assets = None

\* The call of GET has ended, by a return or by an exception.
GetEnded == get_pc \in {"returned", "raised"}

\* C23: GET makes at most max_retries attempts, stops at the first one that
\* succeeds and returns its response, raises when max_retries attempts have
\* failed, and for every max_retries ends with a response or an exception.
C23_ResponseOrRaise ==
    /\ Len(get_log) <= max_retries
    /\ \A k \in 1..Len(get_log) : get_log[k] = "ok" => (k = Len(get_log) /\ GetEnded)
    /\ get_result = "response" => (get_log # <<>> /\ get_log[Len(get_log)] = "ok")
    /\ get_result = "raised" =>
          (Len(get_log) = max_retries /\ \A k \in 1..Len(get_log) : get_log[k] # "ok")
    /\ GetEnded => get_result \in {"response", "raised"}

\* C24: every row of the returned panel has a fiscal year of the requested
\* range and one of the four quarter labels, and when the requested tickers
\* are distinct no two rows share (ticker, fy, fq), so that a ticker has at
\* most four rows per requested year.
C24_RowsWithinRange ==
    Done =>
        /\ \A i \in 1..Len(panel) :
              /\ panel[i].fy \in start_year..(start_year + NumYears - 1)
              /\ panel[i].fq \in {"Q1", "Q2", "Q3", "Q4"}
        /\ (\A i \in 1..Len(tickers) : OnlyRequest(i)) =>
              /\ \A i, j \in 1..Len(panel) :
                    (/\ panel[i].ticker = panel[j].ticker
                     /\ panel[i].fy = panel[j].fy
                     /\ panel[i].fq = panel[j].fq) => i = j
              /\ \A i \in 1..Len(tickers) :
                    Len(RowsOf(panel, tickers[i])) <= 4 * NumYears

\* C24 witness: an entity that reports revenue for every quarter of the range
\* and for the years just outside it has four rows per requested year.
C24_Witness ==
    /\ Done
    /\ \E i \in 1..Len(tickers) :
          /\ Mapped(tickers[i])
          /\ OnlyRequest(i)
          /\ FactsOf(i) = FactsFull
          /\ Len(RowsOf(panel, tickers[i])) = 4 * NumYears

\* C25: the returned panel has 67 columns, no name twice: the 4 identifier
\* columns, 62 features of which 30 are raw metrics and 32 derived metrics,
\* and the earning_growth target.
C25_SixtySevenColumns ==
    Done =>
        /\ Len(panel_cols) = 67
        /\ Len(FEATURES_62) = 62
        /\ Cardinality(Range(FEATURES_62) \cap Range(RawCols)) = 30
        /\ Cardinality(Range(FEATURES_62) \ Range(RawCols)) = 32
        /\ panel_cols = IdCols \o FEATURES_62 \o <<"earning_growth">>
        /\ Cardinality(Range(panel_cols)) = Len(panel_cols)

\* What the observations given to quarter_increment report for a period:
\* the value, or None when the period has no observation (every observation
\* of these fact sets carries a value).
YtdOrNone(fp) == IF Reported(fp) THEN ReportedVal(fp) ELSE None

\* C26: when FY or one of Q1, Q2, Q3 is not reported, Q4 is the Q4-labeled
\* value if there is one, else the FY value if there is one, else unknown; it
\* is unknown only when neither is reported, and never FY less the
\* increments that happen to be known.
C26_Q4Fallback ==
    (inc_result # <<>> /\ \E fp \in {"Q1", "Q2", "Q3", "FY"} : ~Reported(fp)) =>
        LET r == inc_result[1]
        IN /\ ~r.raised
           /\ r.Q4 = (IF Reported("Q4") THEN ReportedVal("Q4")
                      ELSE IF Reported("FY") THEN ReportedVal("FY")
                      ELSE None)
           /\ r.Q4 = None <=> (~Reported("Q4") /\ ~Reported("FY"))

\* C26 witness: FY and a positive Q1 are reported, Q2 and a Q4-labeled value
\* are not, and Q4 is the whole FY value.
C26_Witness ==
    /\ inc_result # <<>>
    /\ Reported("FY") /\ Reported("Q1") /\ ~Reported("Q2") /\ ~Reported("Q4")
    /\ ReportedVal("Q1") > 0
    /\ inc_result[1].Q4 = ReportedVal("FY")

\* C27: Q1 is the Q1 year-to-date value; Q2 is Q2 YTD - Q1 YTD when both are
\* reported and the Q2 YTD value itself otherwise; Q3 likewise from Q3 and Q2;
\* an increment is unknown exactly when its own YTD value is not reported.
C27_YtdDifferences ==
    inc_result # <<>> =>
        LET r == inc_result[1]
        IN /\ r.Q1 = YtdOrNone("Q1")
           /\ r.Q2 = (IF Reported("Q2") /\ Reported("Q1")
                      THEN ReportedVal("Q2") - ReportedVal("Q1")
                      ELSE YtdOrNone("Q2"))
           /\ r.Q3 = (IF Reported("Q3") /\ Reported("Q2")
                      THEN ReportedVal("Q3") - ReportedVal("Q2")
                      ELSE YtdOrNone("Q3"))
           /\ \A fp \in {"Q1", "Q2", "Q3"} : r[fp] = None <=> ~Reported(fp)

\* C27 witness: Q1 is not reported and Q2 is, so Q2 passes through; Q3 is
\* not reported while Q2 is positive, so Q3 stays unknown.
C27_Witness ==
    /\ inc_result # <<>>
    /\ ~Reported("Q1") /\ Reported("Q2") /\ ~Reported("Q3")
    /\ ReportedVal("Q2") > 0
    /\ inc_result[1].Q2 = ReportedVal("Q2")
    /\ inc_result[1].Q3 = None

\* C28: pick_val never raises, returns None exactly when no observation
\* matches the requested fiscal year and period, and otherwise returns the
\* value of one of the matching observations.
C28_NoneIffNoMatch ==
    pick_result # Unset =>
        /\ pick_result # Raised
        /\ pick_result = None <=> Matching = {}
        /\ Matching # {} => \E i \in Matching : arr[i].val = pick_result

\* The observations of the earliest listed tag that is a key of the fact set.
EarliestData(ug, tag_list) == ug[PresentTags(ug, tag_list)[1]].units[1].data

\* C29: the tag is resolved by key alone. When the earliest present tag of
\* the list reports nothing for the requested period, quarter_instant and
\* quarter_increment give None for it whatever a later tag of the list
\* reports, and the revenue unit is the unit of that same earliest tag.
C29_NoFallThrough ==
    /\ (fn = "quarter_instant" /\ fn_result # <<>>
           /\ PresentTags(fn_args[1], INSTANT_TAGS["cash"]) # <<>>) =>
          LET data == EarliestData(fn_args[1], INSTANT_TAGS["cash"])
          IN (/\ ReportedIn(data, fn_args[2]) = None
              /\ fn_args[2] = "Q4" => ReportedIn(data, "FY") = None)
                 => fn_result[1] = None
    /\ (fn = "quarter_increment" /\ fn_result # <<>>
           /\ PresentTags(fn_args[1], DURATION_TAGS["net_income"]) # <<>>) =>
          LET data == EarliestData(fn_args[1], DURATION_TAGS["net_income"])
          IN \A fp \in {"Q1", "Q2", "Q3", "FY"} :
                ReportedIn(data, fp) = None => fn_result[1][fp] = None
    /\ (fn = "revenue_unit" /\ fn_result # <<>>) =>
          LET present == PresentTags(fn_args[1], DURATION_TAGS["revenue"])
          IN IF present = <<>> THEN fn_result[1] = "None"
             ELSE /\ fn_result[1] = fn_args[1][present[1]].units[1].unit
                  /\ \A fp \in {"Q1", "Q2", "Q3", "FY"} :
                        ReportedIn(EarliestData(fn_args[1], DURATION_TAGS["revenue"]), fp)
                           = None
                        => fn_result[2][fp] = None

\* C29 witness: the earliest revenue tag is present, is in EUR and reports
\* nothing, the next one reports revenue in USD, and the resolved unit is EUR
\* with every increment unknown.
C29_Witness ==
    /\ fn = "revenue_unit"
    /\ fn_result # <<>>
    /\ LET tag_list == DURATION_TAGS["revenue"]
       IN /\ Len(PresentTags(fn_args[1], tag_list)) = 2
          /\ fn_args[1][tag_list[1]].units[1].data = <<>>
          /\ fn_args[1][tag_list[2]].units[1].unit = "USD"
          /\ fn_args[1][tag_list[2]].units[1].data # <<>>
          /\ fn_result[1] = "EUR"
          /\ fn_result[2].Q1 = None

\* The rearrangements of the observation array, and the arrays with one of
\* its observations filed once more.
Orders(n) == {p \in [1..n -> 1..n] : \A i, j \in 1..n : p[i] = p[j] => i = j}
Rearranged == {[i \in 1..Len(arr) |-> arr[p[i]]] : p \in Orders(Len(arr))}
Refiled == {Append(arr, arr[i]) : i \in 1..Len(arr)}

\* C30: what pick_val gives for a fiscal year and period, a value, None or a
\* TypeError, is the same for every order of the observation array and with
\* any observation of the array repeated.
C30_OrderAndMultiplicity ==
    pick_result # Unset =>
        \A a \in Rearranged \cup Refiled :
           pick_val(a, pick_args[1], pick_args[2]) = pick_result

\* C30 witness: two matching observations with different values, the one
\* with the later period end filed first, and its value was returned.
C30_Witness ==
    /\ pick_result \notin {Unset, Raised}
    /\ \E i, j \in Matching :
          /\ i < j
          /\ arr[i].end > arr[j].end
          /\ arr[i].val # arr[j].val
          /\ arr[i].val = pick_result

====
